---- MODULE Spec2Model ----
(***************************************************************************)
(* Model of querier/src/database.rs: the QuerierDatabase gateway.          *)
(*                                                                         *)
(*   new(.., max_concurrent_queries)  construction with the ceiling check  *)
(*   namespace(name)                  acquire a permit, resolve the        *)
(*                                    schema, build a QuerierNamespace     *)
(*                                    that owns the permit                 *)
(*   namespaces()                     list the catalog, retrying forever   *)
(*                                                                         *)
(* A namespace() future is a small process: it is polled for the first     *)
(* time (GetStart), may wait in the semaphore's queue, is handed a permit, *)
(* resumes, awaits the schema and returns.  It can be dropped at either    *)
(* suspension point.  The handle it returns is dropped by its owner.       *)
(***************************************************************************)
EXTENDS Integers, Sequences, FiniteSets

\* ---------------------------------------------------------------- bounds
MaxCalls == 3
MaxFailures == 2

\* ------------------------------------------------------ program constants
MAX_CONCURRENT_QUERIES_MAX == 65535

\* ---------------------------------------------------------------- inputs
Calls == 1..MaxCalls
Names == {"ns1", "ns2"}
Capacities == {0, 1, 2, MAX_CONCURRENT_QUERIES_MAX,
               MAX_CONCURRENT_QUERIES_MAX + 1, MAX_CONCURRENT_QUERIES_MAX + 2}
NoName == "-"

VARIABLES
    gw,                      \* "none" | "alive" | "panicked"
    max_concurrent_queries,  \* the argument new() was called with
    permits,                 \* query_execution_semaphore: available permits
    waiters,                 \* query_execution_semaphore: queue of pending acquires
    closed,                  \* query_execution_semaphore: closed for good
    calls,                   \* one namespace() future per call id: position, name,
                             \* permit owned, what the resolver answered
    catalog,                 \* the namespaces that exist
    listpc,                  \* position of the namespaces() future
    listFailures,            \* failed catalog reads of the running namespaces() call
    listResult               \* what namespaces() returned

vars == <<gw, max_concurrent_queries, permits, waiters, closed, calls, catalog,
          listpc, listFailures, listResult>>

poolVars == <<permits, waiters, calls>>
listVars == <<listpc, listFailures, listResult>>

\* ---------------------------------------------------------------- helpers
Min(a, b) == IF a < b THEN a ELSE b

Remove(s, c) == SelectSeq(s, LAMBDA x : x # c)

Range(s) == {s[i] : i \in DOMAIN s}

\* calls that are in the given position
At(p) == {c \in Calls : calls[c].pc = p}

\* live QuerierNamespace handles
Handles == At("handle")

\* the calls that own an OwnedSemaphorePermit: in the namespace() future
\* (assigned to its queued acquire, or in its local `permit`) or in the
\* QuerierNamespace it returned
Outstanding == {c \in Calls : calls[c].permit}

\* units nobody works with: in the counter, or assigned to a queued acquire
\* whose future was not polled again yet
Available == permits + Cardinality(At("granted"))

\* the schema resolver: with its infrastructure up, the schema of an
\* existing namespace, else nothing; with its infrastructure down, an error
schema(name, cat, infra) ==
    IF infra = "down" THEN "error"
    ELSE IF name \in cat THEN "schema" ELSE "none"

\* ------------------------------------------------------------ the semaphore
\* (variant) the unit goes back to the counter and no queued acquire is woken
ReleasePermitNoWake(cs) ==
    /\ permits' = permits + 1
    /\ waiters' = waiters
    /\ calls' = cs

\* (variant) the unit goes to the acquire that queued last
ReleasePermitNewestFirst(cs) ==
    IF waiters = <<>>
    THEN /\ permits' = permits + 1
         /\ waiters' = waiters
         /\ calls' = cs
    ELSE /\ permits' = permits
         /\ waiters' = SubSeq(waiters, 1, Len(waiters) - 1)
         /\ calls' = [cs EXCEPT ![waiters[Len(waiters)]].pc = "granted",
                                ![waiters[Len(waiters)]].permit = TRUE]

\* Dropping an OwnedSemaphorePermit: the unit goes to the acquire at the
\* front of the queue if there is one, else back to the counter.
\* cs is the calls function as the dropping step leaves it.
ReleasePermit(cs) ==
    IF waiters = <<>>
    THEN /\ permits' = permits + 1
         /\ waiters' = waiters
         /\ calls' = cs
    ELSE /\ permits' = permits
         /\ waiters' = Tail(waiters)
         /\ calls' = [cs EXCEPT ![Head(waiters)].pc = "granted",
                                ![Head(waiters)].permit = TRUE]

\* --------------------------------------------------------------------- Init
Init ==
    /\ gw = "none"
    /\ max_concurrent_queries = 0
    /\ permits = 0
    /\ waiters = <<>>
    /\ closed = FALSE
    /\ calls = [c \in Calls |-> [pc |-> "idle", name |-> NoName, permit |-> FALSE, answer |-> "-"]]
    /\ catalog = {}
    /\ listpc = "idle"
    /\ listFailures = 0
    /\ listResult = {}

\* ------------------------------------------------------------- construction
\* (variant) a pool is given one permit at least
NewAtLeastOne(n) ==
    /\ gw = "none"
    /\ max_concurrent_queries' = n
    /\ IF n <= MAX_CONCURRENT_QUERIES_MAX
       THEN gw' = "alive" /\ permits' = (IF n = 0 THEN 1 ELSE n)
       ELSE gw' = "panicked" /\ permits' = permits
    /\ closed' = FALSE
    /\ UNCHANGED <<waiters, calls, catalog, listVars>>

\* (variant) the ceiling itself is refused
NewStrict(n) ==
    /\ gw = "none"
    /\ max_concurrent_queries' = n
    /\ IF n < MAX_CONCURRENT_QUERIES_MAX
       THEN gw' = "alive" /\ permits' = n
       ELSE gw' = "panicked" /\ permits' = permits
    /\ closed' = FALSE
    /\ UNCHANGED <<waiters, calls, catalog, listVars>>

\* the assert! on the ceiling, then Semaphore::new(max_concurrent_queries)
New(n) ==
    /\ gw = "none"
    /\ max_concurrent_queries' = n
    /\ IF n <= MAX_CONCURRENT_QUERIES_MAX
       THEN gw' = "alive" /\ permits' = n
       ELSE gw' = "panicked" /\ permits' = permits
    /\ closed' = FALSE
    /\ UNCHANGED <<waiters, calls, catalog, listVars>>

\* ------------------------------------------------------------- namespace()
\* (variant) the existence check is done before the permit is awaited: an
\* unknown name is answered at once
GetStartLookupFirst(c, name) ==
    /\ gw = "alive"
    /\ calls[c].pc = "idle"
    /\ IF schema(name, catalog, "up") = "none"
       THEN /\ calls' = [calls EXCEPT ![c] = [pc |-> "absent", name |-> name, permit |-> FALSE, answer |-> "-"]]
            /\ UNCHANGED <<permits, waiters>>
       ELSE IF permits > 0
       THEN /\ permits' = permits - 1
            /\ calls' = [calls EXCEPT ![c] = [pc |-> "resolving", name |-> name, permit |-> TRUE, answer |-> "-"]]
            /\ UNCHANGED waiters
       ELSE /\ waiters' = Append(waiters, c)
            /\ calls' = [calls EXCEPT ![c] = [pc |-> "waiting", name |-> name, permit |-> FALSE, answer |-> "-"]]
            /\ UNCHANGED permits
    /\ UNCHANGED <<gw, closed, max_concurrent_queries, catalog, listVars>>

\* (variant) a name that has a live handle is served from that handle
GetStartDedup(c, name) ==
    /\ gw = "alive"
    /\ calls[c].pc = "idle"
    /\ IF \E d \in Handles : calls[d].name = name
       THEN /\ calls' = [calls EXCEPT ![c] = [pc |-> "handle", name |-> name, permit |-> FALSE, answer |-> "-"]]
            /\ UNCHANGED <<permits, waiters>>
       ELSE IF permits > 0
       THEN /\ permits' = permits - 1
            /\ calls' = [calls EXCEPT ![c] = [pc |-> "resolving", name |-> name, permit |-> TRUE, answer |-> "-"]]
            /\ UNCHANGED waiters
       ELSE /\ waiters' = Append(waiters, c)
            /\ calls' = [calls EXCEPT ![c] = [pc |-> "waiting", name |-> name, permit |-> FALSE, answer |-> "-"]]
            /\ UNCHANGED permits
    /\ UNCHANGED <<gw, closed, max_concurrent_queries, catalog, listVars>>

\* (variant) the acquire is not awaited: with an empty pool the lookup starts
\* without a permit
GetStartNoPermit(c, name) ==
    /\ gw = "alive"
    /\ calls[c].pc = "idle"
    /\ IF permits > 0
       THEN /\ permits' = permits - 1
            /\ calls' = [calls EXCEPT ![c] = [pc |-> "resolving", name |-> name, permit |-> TRUE, answer |-> "-"]]
            /\ UNCHANGED waiters
       ELSE /\ calls' = [calls EXCEPT ![c] = [pc |-> "resolving", name |-> name, permit |-> FALSE, answer |-> "-"]]
            /\ UNCHANGED <<permits, waiters>>
    /\ UNCHANGED <<gw, closed, max_concurrent_queries, catalog, listVars>>

\* first poll: acquire_owned() takes a permit if one is free, else queues;
\* on a closed semaphore it fails and the expect() is the fatal fault
GetStart(c, name) ==
    /\ gw = "alive"
    /\ calls[c].pc = "idle"
    /\ IF closed
       THEN /\ calls' = [calls EXCEPT ![c] = [pc |-> "fault", name |-> name, permit |-> FALSE, answer |-> "-"]]
            /\ UNCHANGED <<permits, waiters>>
       ELSE IF permits > 0
       THEN /\ permits' = permits - 1
            /\ calls' = [calls EXCEPT ![c] = [pc |-> "resolving", name |-> name, permit |-> TRUE, answer |-> "-"]]
            /\ UNCHANGED waiters
       ELSE /\ waiters' = Append(waiters, c)
            /\ calls' = [calls EXCEPT ![c] = [pc |-> "waiting", name |-> name, permit |-> FALSE, answer |-> "-"]]
            /\ UNCHANGED permits
    /\ UNCHANGED <<gw, closed, max_concurrent_queries, catalog, listVars>>

\* the woken future is polled again: the acquire is ready, the lookup starts
GetResume(c) ==
    /\ calls[c].pc = "granted"
    /\ calls' = [calls EXCEPT ![c].pc = "resolving"]
    /\ UNCHANGED <<gw, closed, max_concurrent_queries, permits, waiters, catalog, listVars>>

\* (variant) the permit is not moved into the QuerierNamespace: it is dropped
\* when namespace() returns
ResolveDoneDropPermit(c) ==
    /\ calls[c].pc = "resolving"
    /\ IF schema(calls[c].name, catalog, "up") # "none"
       THEN ReleasePermit([calls EXCEPT ![c].pc = "handle", ![c].permit = FALSE])
       ELSE ReleasePermit([calls EXCEPT ![c].pc = "absent", ![c].permit = FALSE])
    /\ UNCHANGED <<gw, closed, max_concurrent_queries, catalog, listVars>>

\* (variant) the permit of a not-found lookup is kept until a handle is
\* dropped: it goes to the counter only when nobody waits
ResolveDoneKeepsFromWaiter(c) ==
    /\ calls[c].pc = "resolving"
    /\ IF schema(calls[c].name, catalog, "up") # "none"
       THEN /\ calls' = [calls EXCEPT ![c].pc = "handle"]
            /\ UNCHANGED <<permits, waiters>>
       ELSE /\ calls' = [calls EXCEPT ![c].pc = "absent", ![c].permit = FALSE]
            /\ permits' = permits + 1
            /\ UNCHANGED waiters
    /\ UNCHANGED <<gw, closed, max_concurrent_queries, catalog, listVars>>

\* (variant) the permit of a not-found lookup is forgotten, not dropped
ResolveDoneLeak(c) ==
    /\ calls[c].pc = "resolving"
    /\ IF schema(calls[c].name, catalog, "up") # "none"
       THEN /\ calls' = [calls EXCEPT ![c].pc = "handle"]
            /\ UNCHANGED <<permits, waiters>>
       ELSE /\ calls' = [calls EXCEPT ![c].pc = "absent", ![c].permit = FALSE]
            /\ UNCHANGED <<permits, waiters>>
    /\ UNCHANGED <<gw, closed, max_concurrent_queries, catalog, listVars>>

\* schema(name).await returns: None leaves through `?` and drops the permit,
\* Some(schema) is wrapped with the permit into a QuerierNamespace
ResolveDone(c) ==
    /\ calls[c].pc = "resolving"
    /\ IF schema(calls[c].name, catalog, "up") # "none"
       THEN /\ calls' = [calls EXCEPT ![c].pc = "handle", ![c].answer = "schema"]
            /\ UNCHANGED <<permits, waiters>>
       ELSE ReleasePermit([calls EXCEPT ![c].pc = "absent", ![c].permit = FALSE,
                                        ![c].answer = "none"])
    /\ UNCHANGED <<gw, closed, max_concurrent_queries, catalog, listVars>>

\* (variant) a failure of the resolver is taken for "no such namespace"
ResolveFailMasked(c) ==
    /\ calls[c].pc = "resolving"
    /\ schema(calls[c].name, catalog, "down") = "error"
    /\ ReleasePermit([calls EXCEPT ![c].pc = "absent", ![c].permit = FALSE,
                                   ![c].answer = "error"])
    /\ UNCHANGED <<gw, closed, max_concurrent_queries, catalog, listVars>>

\* schema(name).await fails on the resolver's infrastructure: the error goes
\* up through namespace(), which has no handler for it; the call ends with
\* that error, not with absent, and its permit is dropped on the way out
ResolveFail(c) ==
    /\ calls[c].pc = "resolving"
    /\ schema(calls[c].name, catalog, "down") = "error"
    /\ ReleasePermit([calls EXCEPT ![c].pc = "error", ![c].permit = FALSE,
                                   ![c].answer = "error"])
    /\ UNCHANGED <<gw, closed, max_concurrent_queries, catalog, listVars>>

\* (variant) the permit is given back by the handle and once more by the
\* permit itself
DiscardTwice(c) ==
    /\ calls[c].pc = "handle"
    /\ IF waiters = <<>>
       THEN /\ permits' = permits + 2
            /\ calls' = [calls EXCEPT ![c].pc = "released", ![c].permit = FALSE]
            /\ UNCHANGED waiters
       ELSE ReleasePermit([calls EXCEPT ![c].pc = "released", ![c].permit = FALSE])
    /\ UNCHANGED <<gw, closed, max_concurrent_queries, catalog, listVars>>

\* (variant) the handle goes, its permit does not come back
DiscardLeak(c) ==
    /\ calls[c].pc = "handle"
    /\ calls' = [calls EXCEPT ![c].pc = "released", ![c].permit = FALSE]
    /\ UNCHANGED <<permits, waiters>>
    /\ UNCHANGED <<gw, closed, max_concurrent_queries, catalog, listVars>>

\* the owner drops the Arc<QuerierNamespace>, and with it the permit
Discard(c) ==
    /\ calls[c].pc = "handle"
    /\ ReleasePermit([calls EXCEPT ![c].pc = "released", ![c].permit = FALSE])
    /\ UNCHANGED <<gw, closed, max_concurrent_queries, catalog, listVars>>

\* (variant) abandoning a call shuts the pool to wake everybody up
CancelCloses(c) ==
    /\ calls[c].pc \in {"waiting", "granted", "resolving"}
    /\ closed' = TRUE
    /\ IF calls[c].pc = "waiting"
       THEN /\ waiters' = Remove(waiters, c)
            /\ calls' = [calls EXCEPT ![c].pc = "cancelled"]
            /\ UNCHANGED permits
       ELSE ReleasePermit([calls EXCEPT ![c].pc = "cancelled", ![c].permit = FALSE])
    /\ UNCHANGED <<gw, max_concurrent_queries, catalog, listVars>>

\* (variant) a queued acquire that is dropped gives a unit back as well
CancelWaitingReleases(c) ==
    /\ calls[c].pc \in {"waiting", "granted", "resolving"}
    /\ IF calls[c].pc = "waiting"
       THEN /\ waiters' = Remove(waiters, c)
            /\ calls' = [calls EXCEPT ![c].pc = "cancelled"]
            /\ permits' = permits + 1
       ELSE ReleasePermit([calls EXCEPT ![c].pc = "cancelled", ![c].permit = FALSE])
    /\ UNCHANGED <<gw, closed, max_concurrent_queries, catalog, listVars>>

\* (variant) a dropped acquire keeps the unit that was assigned to it
CancelGrantedLeak(c) ==
    /\ calls[c].pc \in {"waiting", "granted", "resolving"}
    /\ IF calls[c].pc = "waiting"
       THEN /\ waiters' = Remove(waiters, c)
            /\ calls' = [calls EXCEPT ![c].pc = "cancelled"]
            /\ UNCHANGED permits
       ELSE IF calls[c].pc = "granted"
       THEN /\ calls' = [calls EXCEPT ![c].pc = "cancelled", ![c].permit = FALSE]
            /\ UNCHANGED <<permits, waiters>>
       ELSE ReleasePermit([calls EXCEPT ![c].pc = "cancelled", ![c].permit = FALSE])
    /\ UNCHANGED <<gw, closed, max_concurrent_queries, catalog, listVars>>

\* (variant) a future dropped during its lookup keeps the permit
CancelLeak(c) ==
    /\ calls[c].pc \in {"waiting", "granted", "resolving"}
    /\ IF calls[c].pc = "waiting"
       THEN /\ waiters' = Remove(waiters, c)
            /\ calls' = [calls EXCEPT ![c].pc = "cancelled"]
            /\ UNCHANGED permits
       ELSE IF calls[c].pc = "resolving"
       THEN /\ calls' = [calls EXCEPT ![c].pc = "cancelled", ![c].permit = FALSE]
            /\ UNCHANGED <<permits, waiters>>
       ELSE ReleasePermit([calls EXCEPT ![c].pc = "cancelled", ![c].permit = FALSE])
    /\ UNCHANGED <<gw, closed, max_concurrent_queries, catalog, listVars>>

\* the caller drops the namespace() future before it completed: a queued
\* acquire leaves the queue, a permit already assigned or held is dropped
Cancel(c) ==
    /\ calls[c].pc \in {"waiting", "granted", "resolving"}
    /\ IF calls[c].pc = "waiting"
       THEN /\ waiters' = Remove(waiters, c)
            /\ calls' = [calls EXCEPT ![c].pc = "cancelled"]
            /\ UNCHANGED permits
       ELSE ReleasePermit([calls EXCEPT ![c].pc = "cancelled", ![c].permit = FALSE])
    /\ UNCHANGED <<gw, closed, max_concurrent_queries, catalog, listVars>>

\* ------------------------------------------------------------ namespaces()
\* (variant) listing takes a unit of the query budget
ListStartAcquire ==
    /\ gw = "alive"
    /\ listpc \in {"idle", "done"}
    /\ permits > 0
    /\ permits' = permits - 1
    /\ listpc' = "reading"
    /\ listFailures' = 0
    /\ listResult' = {}
    /\ UNCHANGED <<gw, closed, max_concurrent_queries, waiters, calls, catalog>>

\* a new namespaces() call: Backoff::new, first attempt under way
ListStart ==
    /\ gw = "alive"
    /\ listpc \in {"idle", "done"}
    /\ listpc' = "reading"
    /\ listFailures' = 0
    /\ listResult' = {}
    /\ UNCHANGED <<gw, closed, max_concurrent_queries, poolVars, catalog>>

\* (variant) the read keeps one namespace only
ListReadOkFirstOnly ==
    /\ listpc = "reading"
    /\ listpc' = "done"
    /\ listResult' = (IF catalog = {} THEN {} ELSE {CHOOSE n \in catalog : TRUE})
    /\ UNCHANGED <<gw, closed, max_concurrent_queries, poolVars, catalog, listFailures>>

\* the catalog read of one attempt succeeds
ListReadOk ==
    /\ listpc = "reading"
    /\ listpc' = "done"
    /\ listResult' = catalog
    /\ UNCHANGED <<gw, closed, max_concurrent_queries, poolVars, catalog, listFailures>>

\* (variant) the retry loop gives up after its last allowed failure
ListReadErrGiveUp ==
    /\ listpc = "reading"
    /\ listpc' = (IF listFailures + 1 >= MaxFailures THEN "failed" ELSE "backoff")
    /\ listFailures' = Min(listFailures + 1, MaxFailures)
    /\ UNCHANGED <<gw, closed, max_concurrent_queries, poolVars, catalog, listResult>>

\* the catalog read of one attempt fails: back off, then try again
ListReadErr ==
    /\ listpc = "reading"
    /\ listpc' = "backoff"
    /\ listFailures' = Min(listFailures + 1, MaxFailures)
    /\ UNCHANGED <<gw, closed, max_concurrent_queries, poolVars, catalog, listResult>>

\* the backoff delay has passed: next attempt
ListRetry ==
    /\ listpc = "backoff"
    /\ listpc' = "reading"
    /\ UNCHANGED <<gw, closed, max_concurrent_queries, poolVars, catalog, listFailures, listResult>>

\* -------------------------------------------------------------- environment
CreateNamespace(name) ==
    /\ name \notin catalog
    /\ catalog' = catalog \cup {name}
    /\ UNCHANGED <<gw, closed, max_concurrent_queries, poolVars, listVars>>

\* --------------------------------------------------------------------- Next
Next ==
    \/ \E n \in Capacities : New(n)
    \/ \E c \in Calls, name \in Names : GetStart(c, name)
    \/ \E c \in Calls : GetResume(c)
    \/ \E c \in Calls : ResolveDone(c)
    \/ \E c \in Calls : ResolveFail(c)
    \/ \E c \in Calls : Discard(c)
    \/ \E c \in Calls : Cancel(c)
    \/ ListStart
    \/ ListReadOk
    \/ ListReadErr
    \/ ListRetry
    \/ \E name \in Names : CreateNamespace(name)

Spec == Init /\ [][Next]_vars

\* The namespace() side alone, with a resolver whose lookups return:
\* namespaces() shares nothing with it.
GetNext ==
    \/ \E n \in Capacities : New(n)
    \/ \E c \in Calls, name \in Names : GetStart(c, name)
    \/ \E c \in Calls : GetResume(c)
    \/ \E c \in Calls : ResolveDone(c)
    \/ \E c \in Calls : Discard(c)
    \/ \E c \in Calls : Cancel(c)
    \/ \E name \in Names : CreateNamespace(name)

\* The runtime polls a woken namespace() future again, every schema lookup
\* returns, and every handle is dropped by its owner in the end.
GetLiveSpec ==
    /\ Init
    /\ [][GetNext]_vars
    /\ \A c \in Calls : WF_vars(GetResume(c))
    /\ \A c \in Calls : WF_vars(ResolveDone(c))
    /\ \A c \in Calls : WF_vars(Discard(c))

\* The runtime polls a namespaces() future whose backoff timer fired, and a
\* catalog that is read again and again answers in the end.
LiveSpec == Spec /\ WF_vars(ListRetry) /\ SF_vars(ListReadOk)

TypeOK ==
    /\ gw \in {"none", "alive", "panicked"}
    /\ max_concurrent_queries \in Capacities
    /\ permits \in 0..MAX_CONCURRENT_QUERIES_MAX
    /\ closed \in BOOLEAN
    /\ Range(waiters) = At("waiting")
    /\ Len(waiters) = Cardinality(At("waiting"))
    /\ Outstanding = At("granted") \cup At("resolving") \cup At("handle")
    /\ catalog \subseteq Names
    /\ listpc \in {"idle", "reading", "backoff", "done"}
    /\ listFailures \in 0..MaxFailures
    /\ listResult \subseteq Names

\* --------------------------------------------------------------- properties

\* every permit of a live gateway is out of the pool
AllHeld == gw = "alive" /\ Cardinality(Outstanding) = max_concurrent_queries

\* call c took a result or a position it did not have before
Moved(c, from, to) == calls[c].pc = from /\ calls'[c].pc = to

\* C1: the live handles of a gateway of capacity N, and the permits that are
\* out of its pool, never number more than N
C1_HandlesAtMostCapacity ==
    gw = "alive" =>
        /\ Cardinality(Handles) <= max_concurrent_queries
        /\ Cardinality(Outstanding) <= max_concurrent_queries

C1_Witness ==
    /\ gw = "alive"
    /\ max_concurrent_queries = 2
    /\ Cardinality(Handles) = 2
    /\ waiters # <<>>

\* C2: while all N permits are held no get() completes: a call that has not
\* got a permit stays idle or pending (or is abandoned) in every step, except
\* the step in which another call gives its permit back and hands it over
C2_NoCompletionWhileAllHeld ==
    [][\A c \in Calls :
          (AllHeld /\ calls[c].pc \in {"idle", "waiting"}) =>
              \/ calls'[c].pc \in {"idle", "waiting", "cancelled"}
              \/ /\ Moved(c, "waiting", "granted")
                 /\ \E d \in Calls \ {c} : calls[d].permit /\ ~calls'[d].permit
      ]_vars

C2_Witness ==
    /\ AllHeld
    /\ max_concurrent_queries = 1
    /\ \E h \in Handles, c \in At("waiting"), d \in At("waiting") :
          /\ calls[c].name = calls[h].name
          /\ calls[d].name \notin catalog

\* C3: a get() whose lookup ends on an unknown name (the resolver answers,
\* the call is not abandoned) returns absent and keeps no permit: the step
\* that ends the lookup gives back the one unit that the step that started
\* the lookup took
C3_UnknownKeepsNoPermit ==
    /\ [](\A c \in Calls : calls[c].pc = "absent" => ~calls[c].permit)
    /\ [][\A c \in Calls :
            (calls[c].pc = "resolving"
                /\ calls'[c].pc \notin {"resolving", "cancelled", "error"}
                /\ calls[c].name \notin catalog) =>
                    /\ calls'[c].pc = "absent"
                    /\ ~calls'[c].permit
                    /\ Available' = Available + 1
        ]_vars
    /\ [][\A c \in Calls :
            (calls[c].pc # "resolving" /\ calls'[c].pc = "resolving") =>
                Available' = Available - 1
        ]_vars

C3_Witness ==
    /\ max_concurrent_queries = 1
    /\ permits = 1
    /\ \E c \in At("absent") : calls[c].name \notin catalog

\* C4: discarding one live handle frees exactly one unit; with waiters
\* pending on the empty pool the unit goes to the first of them and to no
\* other, without it the counter grows by one
C4_DiscardFreesOne ==
    [][\A c \in Calls :
          Moved(c, "handle", "released") =>
              /\ Available' = Available + 1
              /\ Handles' = Handles \ {c}
              /\ IF waiters = <<>>
                 THEN permits' = permits + 1 /\ At("granted")' = At("granted")
                 ELSE /\ permits = 0 /\ permits' = 0
                      /\ At("granted")' = At("granted") \cup {Head(waiters)}
                      /\ At("waiting")' = At("waiting") \ {Head(waiters)}
                      /\ waiters' = Tail(waiters)
      ]_vars

C4_Witness ==
    /\ permits = 0
    /\ At("released") # {}
    /\ Cardinality(At("granted")) = 1
    /\ At("waiting") # {}
    /\ Outstanding = At("granted")

\* C5: the lookup of a get() starts only with that call's permit in hand: a
\* call in its lookup owns a permit and is not queued, it entered the lookup
\* by taking a free unit or from the unit handed to it, and a result comes
\* only out of a lookup
C5_PermitBeforeResolve ==
    /\ [](\A c \in Calls :
            calls[c].pc = "resolving" => calls[c].permit /\ c \notin Range(waiters))
    /\ [][\A c \in Calls :
            (calls[c].pc # "resolving" /\ calls'[c].pc = "resolving") =>
                /\ calls'[c].permit
                /\ \/ calls[c].pc = "granted" /\ calls[c].permit
                   \/ calls[c].pc = "idle" /\ permits > 0 /\ permits' = permits - 1
        ]_vars
    /\ [][\A c \in Calls :
            (calls'[c].pc \in {"handle", "absent"} /\ calls[c].pc # calls'[c].pc) =>
                calls[c].pc = "resolving" /\ calls[c].permit
        ]_vars

C5_Witness ==
    /\ permits = 0
    /\ waiters # <<>>
    /\ \E c \in At("resolving") : calls[c].permit
    /\ At("released") # {}

\* the live handles for one name
HandlesFor(name) == {c \in Handles : calls[c].name = name}

\* C6: handles are not shared by name: every handle owns a permit of its
\* own, k live handles for a name leave at most N - k units in the counter,
\* a lookup that succeeds adds a handle and keeps its permit, and a get()
\* for a name with a live handle queues when the pool is empty
C6_NoDeduplication ==
    /\ [](gw = "alive" =>
            /\ \A c \in Handles : calls[c].permit
            /\ \A name \in Names :
                  permits + Cardinality(HandlesFor(name)) <= max_concurrent_queries)
    /\ [][\A c \in Calls :
            Moved(c, "resolving", "handle") =>
                /\ calls'[c].permit
                /\ permits' = permits
                /\ HandlesFor(calls[c].name)' = HandlesFor(calls[c].name) \cup {c}
        ]_vars
    /\ [][\A c \in Calls :
            (calls[c].pc = "idle" /\ calls'[c].pc # "idle" /\ permits = 0
                /\ HandlesFor(calls'[c].name) # {}) =>
                    /\ calls'[c].pc = "waiting"
                    /\ c \in Range(waiters')
                    /\ Handles' = Handles
        ]_vars

C6_Witness ==
    /\ max_concurrent_queries = 2
    /\ permits = 0
    /\ Cardinality(HandlesFor("ns1")) = 2
    /\ \E c \in At("waiting") : calls[c].name = "ns1"

\* call c is abandoned in this step
Abandoned(c) == calls[c].pc # "cancelled" /\ calls'[c].pc = "cancelled"

\* C7 as stated: a get() that is abandoned never had a permit, wherever it
\* was abandoned
C7_Original ==
    [][\A c \in Calls : Abandoned(c) => ~calls[c].permit /\ permits' = permits]_vars

\* C7 amended: a get() abandoned while it waits for a permit never had one
\* and leaves the pool as it was; a get() abandoned after its acquisition
\* (permit assigned to it, or lookup under way) owned one permit, and the
\* abandonment gives exactly that permit back, to the first waiter if any
C7_AbandonReturnsPermit ==
    /\ [](\A c \in Calls : calls[c].pc \in {"waiting", "cancelled"} => ~calls[c].permit)
    /\ [][\A c \in Calls :
            Abandoned(c) =>
                IF calls[c].pc = "waiting"
                THEN /\ permits' = permits
                     /\ Outstanding' = Outstanding
                     /\ waiters' = Remove(waiters, c)
                ELSE /\ calls[c].pc \in {"granted", "resolving"}
                     /\ calls[c].permit
                     /\ ~calls'[c].permit
                     /\ IF waiters = <<>>
                        THEN /\ permits' = permits + 1
                             /\ Outstanding' = Outstanding \ {c}
                        ELSE /\ permits' = permits
                             /\ Outstanding' = (Outstanding \ {c}) \cup {Head(waiters)}
        ]_vars

C7_Witness ==
    /\ max_concurrent_queries = 1
    /\ At("cancelled") # {}
    /\ At("granted") # {}
    /\ At("released") = {}
    /\ At("absent") = {}
    /\ At("error") = {}

\* C8: new() accepts every max_concurrent_queries up to the ceiling and
\* leaves exactly that many permits and no handle; above the ceiling it
\* aborts and leaves no gateway, no permit and nothing to call
C8_ConstructionCeiling ==
    /\ [](gw = "alive" => max_concurrent_queries <= 65535)
    /\ [](gw = "panicked" =>
            /\ max_concurrent_queries > 65535
            /\ permits = 0 /\ waiters = <<>>
            /\ \A c \in Calls : calls[c].pc = "idle" /\ ~calls[c].permit
            /\ listpc = "idle")
    /\ [][(gw = "none" /\ gw' # "none") =>
            IF max_concurrent_queries' <= 65535
            THEN /\ gw' = "alive"
                 /\ permits' = max_concurrent_queries'
                 /\ Handles' = {} /\ Outstanding' = {} /\ waiters' = <<>>
            ELSE /\ gw' = "panicked"
                 /\ permits' = 0
                 /\ Handles' = {} /\ Outstanding' = {} /\ waiters' = <<>>
        ]_vars

C8_Witness ==
    /\ gw = "alive"
    /\ max_concurrent_queries = 65535
    /\ permits = 65535
    /\ Outstanding = {}

\* C9: no step of namespaces() touches the pool (counter, queue, futures and
\* handles stay as they are), and whatever the pool's state a namespaces()
\* call can start and its read can complete
C9_ListIgnoresPool ==
    /\ [][listVars' # listVars => UNCHANGED <<permits, waiters, calls>>]_vars
    /\ []((gw = "alive" /\ listpc \in {"idle", "done"}) => ENABLED ListStart)
    /\ [](listpc = "reading" => ENABLED ListReadOk)

C9_Witness ==
    /\ AllHeld
    /\ max_concurrent_queries = 1
    /\ Len(waiters) = 2
    /\ listpc = "done"
    /\ listResult = {"ns1"}

\* C10: namespaces() has no error outcome: a failed read leads to a backoff
\* and the backoff to another read, however many reads failed before; it
\* returns only in the step of a successful read, with what that read saw;
\* and with reads that succeed in the end it returns in the end
C10_ListRetriesForever ==
    /\ [](listpc \in {"idle", "reading", "backoff", "done"})
    /\ [][(listpc = "reading" /\ listpc' # "reading") =>
            \/ listpc' = "done" /\ listResult' = catalog /\ listFailures' = listFailures
            \/ listpc' = "backoff" /\ listFailures' = Min(listFailures + 1, MaxFailures)
        ]_vars
    /\ [][(listpc = "backoff" /\ listpc' # "backoff") => listpc' = "reading"]_vars
    /\ [](listpc = "backoff" => ENABLED ListRetry)
    /\ [][(listpc # "done" /\ listpc' = "done") => listpc = "reading"]_vars
    /\ (listpc = "reading") ~> (listpc = "done")

C10_Witness ==
    /\ listpc = "done"
    /\ listFailures = MaxFailures
    /\ catalog # {}
    /\ listResult = catalog

\* C11: what namespaces() returns is, as a set of names, the catalog as the
\* successful read found it, nothing less and nothing more; a new call
\* starts with nothing from the call before it and reads again
C11_ListEqualsCatalog ==
    /\ [][(listpc = "reading" /\ listpc' = "done") =>
            /\ listResult' = catalog
            /\ \A n \in Names : n \in listResult' <=> n \in catalog
        ]_vars
    /\ [][(listpc = "done" /\ listpc' = "done") => listResult' = listResult]_vars
    /\ [][(listpc = "done" /\ listpc' # "done") =>
            listpc' = "reading" /\ listResult' = {}
        ]_vars
    /\ [](listpc # "done" => listResult = {})

C11_Witness ==
    /\ listpc = "done"
    /\ catalog = {"ns1", "ns2"}
    /\ listResult = {"ns1", "ns2"}
    /\ listFailures > 0

\* call c is over: it returned a handle or absent, or it was abandoned
Completed(c) == calls[c].pc \in {"handle", "released", "absent", "cancelled"}

\* C12: on a gateway that has capacity, a get() that waits for a permit
\* completes in the end, when woken futures are polled, lookups return and
\* handles are dropped
C12_WaitersServed ==
    \A c \in Calls :
        (calls[c].pc = "waiting" /\ max_concurrent_queries > 0) ~> Completed(c)

C12_Witness ==
    /\ max_concurrent_queries = 1
    /\ Cardinality(At("released")) = 1
    /\ Cardinality(At("handle")) = 1
    /\ Cardinality(At("waiting")) = 1

\* C13: waiters are admitted in the order in which they queued: a new waiter
\* goes to the back, and a discarded handle's permit goes to the waiter at
\* the front while all behind it keep waiting in their order, whichever
\* handle was discarded
C13_FifoAdmission ==
    /\ [][\A c \in Calls :
            Moved(c, "idle", "waiting") => waiters' = Append(waiters, c)
        ]_vars
    /\ [][\A c \in Calls :
            (Moved(c, "handle", "released") /\ waiters # <<>>) =>
                /\ calls'[Head(waiters)].pc = "granted"
                /\ calls'[Head(waiters)].permit
                /\ \A i \in 2..Len(waiters) :
                      /\ calls'[waiters[i]].pc = "waiting"
                      /\ ~calls'[waiters[i]].permit
                      /\ waiters'[i - 1] = waiters[i]
                /\ Len(waiters') = Len(waiters) - 1
        ]_vars

C13_Witness ==
    /\ max_concurrent_queries = 1
    /\ permits = 0
    /\ At("released") # {}
    /\ At("granted") # {}
    /\ Len(waiters) = 1
    /\ At("cancelled") = {}
    /\ At("absent") = {}
    /\ At("error") = {}

\* C14: when a lookup ends on an unknown name while calls wait, the permit
\* it drops goes to the first waiter in that very step, with no handle
\* discarded, and that waiter can go on to its lookup and its result
C14_AbsentPassesPermitOn ==
    /\ [][\A c \in Calls :
            (Moved(c, "resolving", "absent") /\ waiters # <<>>) =>
                /\ calls'[Head(waiters)].pc = "granted"
                /\ calls'[Head(waiters)].permit
                /\ waiters' = Tail(waiters)
                /\ permits' = permits
                /\ Handles' = Handles
                /\ At("released")' = At("released")
        ]_vars
    /\ [](\A c \in Calls : calls[c].pc = "granted" => ENABLED GetResume(c))
    /\ [](\A c \in Calls : calls[c].pc = "resolving" => ENABLED ResolveDone(c))

C14_Witness ==
    /\ max_concurrent_queries = 1
    /\ permits = 0
    /\ Cardinality(At("released")) = 1
    /\ \E c \in At("absent") : calls[c].name \notin catalog
    /\ \E d \in At("handle") : calls[d].name \in catalog

\* C15: a handle is Admitted, then Released, and nothing else: it holds its
\* permit for as long as it lives, leaves only by the discard, which gives
\* back one unit, never comes back, and the counter never passes the maximum
C15_HandleLifecycle ==
    /\ [](\A c \in Calls :
            /\ calls[c].pc = "handle" => calls[c].permit
            /\ calls[c].pc = "released" => ~calls[c].permit)
    /\ [](gw = "alive" => permits <= max_concurrent_queries)
    /\ [][\A c \in Calls :
            (calls[c].pc = "handle" /\ calls'[c].pc # "handle") =>
                /\ calls'[c].pc = "released"
                /\ Available' = Available + 1
                /\ permits' + Cardinality(Outstanding') = permits + Cardinality(Outstanding)
        ]_vars
    /\ [][\A c \in Calls : calls[c].pc = "released" => calls'[c] = calls[c]]_vars
    /\ [][\A c \in Calls : calls'[c].permit /\ calls[c].pc = "handle" =>
            calls'[c].pc = "handle"]_vars

C15_Witness ==
    /\ max_concurrent_queries = 2
    /\ permits = 2
    /\ Cardinality(At("released")) = 2

\* C16: a failure of the resolver's infrastructure and "namespace unknown"
\* stay apart: a call whose lookup failed ends with the resolver's error and
\* with nothing else, absent is returned only on the resolver's answer that
\* the namespace does not exist, for a name that is not in the catalog, and
\* a handle only on a schema
C16_AbsentMeansUnknown ==
    /\ [](\A c \in Calls :
            /\ calls[c].pc = "absent" => calls[c].answer = "none"
            /\ calls[c].pc \in {"handle", "released"} => calls[c].answer = "schema"
            /\ calls[c].answer = "error" => calls[c].pc = "error"
            /\ calls[c].pc = "error" => calls[c].answer = "error" /\ ~calls[c].permit)
    /\ [][\A c \in Calls :
            (calls[c].pc # "absent" /\ calls'[c].pc = "absent") =>
                /\ calls[c].pc = "resolving"
                /\ calls[c].name \notin catalog
        ]_vars
    /\ [][\A c \in Calls :
            (calls[c].pc # "handle" /\ calls'[c].pc = "handle") =>
                /\ calls[c].pc = "resolving"
                /\ calls[c].name \in catalog
        ]_vars
    /\ [][\A c \in Calls :
            (calls[c].pc # "error" /\ calls'[c].pc = "error") =>
                calls[c].pc = "resolving"
        ]_vars

C16_Witness ==
    /\ \E c \in At("error") :
          calls[c].name \notin catalog /\ calls[c].answer = "error"
    /\ \E c \in At("error") :
          calls[c].name \in catalog /\ calls[c].answer = "error"
    /\ \E c \in At("absent") : calls[c].answer = "none"

\* C17: the pool is never closed, and no get() ends in the fault of an
\* acquire on a closed pool
C17_PoolNeverClosed ==
    /\ closed = FALSE
    /\ \A c \in Calls : calls[c].pc # "fault"

C17_Witness ==
    /\ gw = "alive"
    /\ ~closed
    /\ At("cancelled") # {}
    /\ At("released") # {}
    /\ At("absent") # {}
    /\ listpc = "done"

\* C18: permits in the counter + live handles + calls that hold a permit for
\* a lookup (started, or about to start with the permit assigned) = the
\* maximum; so handles and lookups together never pass it
C18_PermitConservation ==
    gw = "alive" =>
        /\ permits + Cardinality(Handles)
             + Cardinality(At("resolving") \cup At("granted")) = max_concurrent_queries
        /\ Outstanding = Handles \cup At("resolving") \cup At("granted")
        /\ Cardinality(Handles) + Cardinality(At("resolving")) <= max_concurrent_queries

C18_Witness ==
    /\ max_concurrent_queries = 2
    /\ Cardinality(Handles) = 1
    /\ Cardinality(At("resolving")) = 1
    /\ Len(waiters) = 1

\* no namespace() future is under way
NoneInFlight == At("waiting") \cup At("granted") \cup At("resolving") = {}

\* C19: with no call in flight and no handle live, every permit is back in
\* the counter
C19_NoLeakWhenQuiet ==
    (gw = "alive" /\ NoneInFlight /\ Handles = {}) =>
        /\ permits = max_concurrent_queries
        /\ Outstanding = {}

C19_Witness ==
    /\ max_concurrent_queries = 1
    /\ permits = 1
    /\ At("cancelled") # {}
    /\ At("absent") # {}
    /\ At("released") # {}

\* C20: a gateway of capacity 0 is constructed, has no permit ever, none of
\* its get() calls gets past waiting, and its namespaces() can start and
\* finish
C20_ZeroCapacity ==
    /\ [][(gw = "none" /\ gw' # "none" /\ max_concurrent_queries' = 0) =>
            gw' = "alive" /\ permits' = 0]_vars
    /\ []((gw = "alive" /\ max_concurrent_queries = 0) =>
            /\ permits = 0
            /\ Outstanding = {}
            /\ \A c \in Calls : calls[c].pc \in {"idle", "waiting", "cancelled"}
            /\ listpc \in {"idle", "done"} => ENABLED ListStart
            /\ listpc = "reading" => ENABLED ListReadOk)

C20_Witness ==
    /\ gw = "alive"
    /\ max_concurrent_queries = 0
    /\ \E c \in At("waiting") : calls[c].name \in catalog
    /\ \E c \in At("waiting") : calls[c].name \notin catalog
    /\ listpc = "done"
    /\ listResult # {}
====
